---- MODULE Spec2Model ----
(***************************************************************************)
(* gerber_cor_cov of gerber.py: the Gerber correlation / covariance        *)
(* matrices of a T x K returns table.                                      *)
(*                                                                         *)
(* Returns are small integers.  A standard deviation is kept exactly as    *)
(* sqrt(num / den), a threshold c * s as sgn * sqrt(num / den), and every  *)
(* comparison r >= H, r <= -H ... is decided on the squares, so ties       *)
(* (r = H) are real.  NaN (the sample standard deviation of a single row)  *)
(* compares false with everything, as IEEE-754 does.                       *)
(***************************************************************************)
EXTENDS Integers, Sequences, FiniteSets

\* ---- bounds of the model ------------------------------------------------
MaxT == 3
MaxK == 2
MaxVal == 1
NWorkers == 2
ParMaxT == 2

Vals == (0 - MaxVal)..MaxVal
\* threshold_value as a fraction <<numerator, denominator>>, denominator > 0
CVals == {<<0 - 1, 1>>, <<0, 1>>, <<1, 2>>, <<1, 1>>, <<2, 1>>}

VARIABLES r, c, T, K,            \* the arguments and returns.shape
          s,                     \* returns.std(axis=0)
          pc,                    \* position in gerber_cor_cov
          i, j, t,               \* the three loop indices
          UU_DD, UD_DU, NN,      \* the counters of the current pair
          cor, cov,              \* the two K x K matrices
          corW, covW,            \* per cell: the pairs that assigned it, in order
          todo, wk               \* pairs not yet handed out; the workers

vars == <<r, c, T, K, s, pc, i, j, t, UU_DD, UD_DU, NN, cor, cov, corW, covW, todo, wk>>

\* ---- floats ---------------------------------------------------------------
NaN == [nan |-> TRUE]

Sign(x) == IF x > 0 THEN 1 ELSE IF x < 0 THEN 0 - 1 ELSE 0

RECURSIVE ColSum(_, _, _)
ColSum(m, k, n) == IF n = 0 THEN 0 ELSE m[n - 1][k] + ColSum(m, k, n - 1)

RECURSIVE ColSq(_, _, _)
ColSq(m, k, n) == IF n = 0 THEN 0 ELSE m[n - 1][k] * m[n - 1][k] + ColSq(m, k, n - 1)

\* sample standard deviation (ddof = 1) of column k: sqrt(num / den); NaN for n < 2
Std(m, k, n) ==
    IF n < 2 THEN NaN
    ELSE [nan |-> FALSE,
          num |-> n * ColSq(m, k, n) - ColSum(m, k, n) * ColSum(m, k, n),
          den |-> n * (n - 1)]

\* the slip "s[k] / c" for "c * s[k]"
ThresholdDiv(cc, sk) ==
    IF sk.nan THEN NaN
    ELSE [nan |-> FALSE,
          sgn |-> IF sk.num = 0 THEN 0 ELSE Sign(cc[1]),
          num |-> cc[2] * cc[2] * sk.num,
          den |-> cc[1] * cc[1] * sk.den]

\* H = c * s[k], as sgn * sqrt(num / den)
Threshold(cc, sk) ==
    IF sk.nan THEN NaN
    ELSE [nan |-> FALSE,
          sgn |-> IF sk.num = 0 THEN 0 ELSE Sign(cc[1]),
          num |-> cc[1] * cc[1] * sk.num,
          den |-> cc[2] * cc[2] * sk.den]

\* the slip "H" for "-H"
NegForgot(H) == H

\* -H
Neg(H) == IF H.nan THEN NaN ELSE [H EXCEPT !.sgn = 0 - H.sgn]

\* sign of x - H for an integer x and a threshold H that is not NaN
Cmp(x, H) ==
    IF H.sgn = 0 THEN Sign(x)
    ELSE IF H.sgn = 1
         THEN IF x <= 0 THEN 0 - 1 ELSE Sign(x * x * H.den - H.num)
         ELSE IF x >= 0 THEN 1 ELSE 0 - Sign(x * x * H.den - H.num)

\* the slip ">" for ">="
GEStrict(x, H) == ~H.nan /\ Cmp(x, H) > 0

GE(x, H) == ~H.nan /\ Cmp(x, H) >= 0
LE(x, H) == ~H.nan /\ Cmp(x, H) <= 0
GT(x, H) == ~H.nan /\ Cmp(x, H) > 0
LT(x, H) == ~H.nan /\ Cmp(x, H) < 0

\* ---- the classification of one joint observation (the if / elif chain) ----
Classify(rti, rtj, Hi, Hj) ==
    IF (GE(rti, Hi) /\ GE(rtj, Hj)) \/ (LE(rti, Neg(Hi)) /\ LE(rtj, Neg(Hj)))
    THEN "UU_DD"
    ELSE IF (GE(rti, Hi) /\ LE(rtj, Neg(Hj))) \/ (LE(rti, Neg(Hi)) /\ GE(rtj, Hj))
    THEN "UD_DU"
    ELSE IF LT(rti, Hi) /\ GT(rti, Neg(Hi)) /\ LT(rtj, Hj) /\ GT(rtj, Neg(Hj))
    THEN "NN"
    ELSE "none"

\* the outcome of period tt for the pair (a, b) under threshold value cc
Outcome(m, cc, sd, a, b, tt) ==
    Classify(m[tt][a], m[tt][b], Threshold(cc, sd[a]), Threshold(cc, sd[b]))

\* ---- matrix cells ---------------------------------------------------------
\* a cell that is not NaN holds n * sqrt(q) / d
Zero == [nan |-> FALSE, n |-> 0, d |-> 1, q |-> 1]
One == [nan |-> FALSE, n |-> 1, d |-> 1, q |-> 1]

\* a == b on floats: false as soon as one side is NaN
FSign(a) == IF a.q = 0 THEN 0 ELSE Sign(a.n) * Sign(a.d)
FEq(a, b) ==
    /\ ~a.nan /\ ~b.nan
    /\ FSign(a) = FSign(b)
    /\ a.n * a.n * a.q * b.d * b.d = b.n * b.n * b.q * a.d * a.d

\* the slip "T + UD_DU" for "T + NN"
RatioWrongDen(p, m, n, tt) == [nan |-> FALSE, n |-> p + m, d |-> tt + m, q |-> 1]

\* (UU_DD + UD_DU) / (T + NN), the denominator being nonzero
Ratio(p, m, n, tt) == [nan |-> FALSE, n |-> p + m, d |-> tt + n, q |-> 1]

\* cor[i, j] * s[i] * s[j]
CovOf(cv, si, sj) ==
    IF cv.nan \/ si.nan \/ sj.nan THEN NaN
    ELSE [nan |-> FALSE, n |-> cv.n, d |-> cv.d * si.den, q |-> si.num * sj.num]

Cells == (0..(K - 1)) \X (0..(K - 1))
Pairs == {p \in Cells : p[2] <= p[1]}

\* a worker with no pair in hand
Idle == [pc |-> "idle", i |-> 0, j |-> 0, UU_DD |-> 0, UD_DU |-> 0, NN |-> 0, err |-> FALSE]

\* ---- the call -------------------------------------------------------------
Init ==
    /\ T \in 1..MaxT
    /\ K \in 1..MaxK
    /\ r \in [0..(T - 1) -> [0..(K - 1) -> Vals]]
    /\ c \in CVals
    /\ s = [k \in 0..(K - 1) |-> NaN]
    /\ pc = "start"
    /\ i = 0 /\ j = 0 /\ t = 0
    /\ UU_DD = 0 /\ UD_DU = 0 /\ NN = 0
    /\ cor = [p \in Cells |-> Zero]
    /\ cov = [p \in Cells |-> Zero]
    /\ corW = [p \in Cells |-> <<>>]
    /\ covW = [p \in Cells |-> <<>>]
    /\ todo = {}
    /\ wk = [w \in 1..NWorkers |-> Idle]

\* lines 71-77: s = returns.std(axis=0), the zero matrices; then the first pair
Start ==
    /\ pc = "start"
    /\ s' = [k \in 0..(K - 1) |-> Std(r, k, T)]
    /\ cor' = [p \in Cells |-> Zero]
    /\ cov' = [p \in Cells |-> Zero]
    /\ i' = 0 /\ j' = 0
    /\ pc' = "pair"
    /\ UNCHANGED <<r, c, T, K, t, UU_DD, UD_DU, NN, corW, covW, todo, wk>>

\* lines 81-83: the counters of the pair (i, j)
PairBegin ==
    /\ pc = "pair"
    /\ UU_DD' = 0 /\ UD_DU' = 0 /\ NN' = 0
    /\ t' = 0
    /\ pc' = "scan"
    /\ UNCHANGED <<r, c, T, K, s, i, j, cor, cov, corW, covW, todo, wk>>

\* lines 86-100: one period of the scan
ScanStep ==
    /\ pc = "scan"
    /\ t < T
    /\ LET o == Classify(r[t][i], r[t][j], Threshold(c, s[i]), Threshold(c, s[j]))
       IN  /\ UU_DD' = IF o = "UU_DD" THEN UU_DD + 1 ELSE UU_DD
           /\ UD_DU' = IF o = "UD_DU" THEN UD_DU - 1 ELSE UD_DU
           /\ NN' = IF o = "NN" THEN NN - 1 ELSE NN
    /\ t' = t + 1
    /\ UNCHANGED <<r, c, T, K, s, pc, i, j, cor, cov, corW, covW, todo, wk>>

\* the slip "[j, j]" for "[j, i]"
MirrorWrong(a, b) == <<b, b>>

\* the cell the value of the pair (a, b) is copied to: cor[j, i], cov[j, i]
Mirror(a, b) == <<b, a>>

\* one assignment m[cell] = v, and its entry in the log of assignments
Assign(m, cell, v) == [m EXCEPT ![cell] = v]
LogWrite(lg, cell, pr) == [lg EXCEPT ![cell] = Append(@, pr)]

\* lines 103-104 for the pair (a, b): cor[i, j] = v; cor[j, i] = cor[i, j]
CorAfter(cr, a, b, v) ==
    LET c1 == Assign(cr, <<a, b>>, v)
    IN  Assign(c1, Mirror(a, b), c1[<<a, b>>])

\* lines 107-108: cov[i, j] = cor[i, j] * s[i] * s[j]; cov[j, i] = cov[i, j]
CovAfter(cv, cr, sd, a, b) ==
    LET c1 == Assign(cv, <<a, b>>, CovOf(cr[<<a, b>>], sd[a], sd[b]))
    IN  Assign(c1, Mirror(a, b), c1[<<a, b>>])

\* the pair after (a, b) in "for i in range(K): for j in range(i + 1)"
LastPair(a, b) == a = K - 1 /\ b = a
NextI(a, b) == IF b < a THEN a ELSE a + 1
NextJ(a, b) == IF b < a THEN b + 1 ELSE 0

\* lines 103-108 and the loop headers; line 110 after the last pair.
\* The counters and T are Python ints: a zero denominator raises
\* ZeroDivisionError out of the call.
Reduce ==
    /\ pc = "scan"
    /\ t = T
    /\ \/ /\ T + NN = 0
          /\ pc' = "raised"
          /\ UNCHANGED <<i, j, cor, cov, corW, covW>>
       \/ /\ T + NN # 0
          /\ cor' = CorAfter(cor, i, j, Ratio(UU_DD, UD_DU, NN, T))
          /\ cov' = CovAfter(cov, cor', s, i, j)
          /\ corW' = LogWrite(LogWrite(corW, <<i, j>>, <<i, j>>), Mirror(i, j), <<i, j>>)
          /\ covW' = LogWrite(LogWrite(covW, <<i, j>>, <<i, j>>), Mirror(i, j), <<i, j>>)
          /\ IF LastPair(i, j)
             THEN pc' = "done" /\ UNCHANGED <<i, j>>
             ELSE pc' = "pair" /\ i' = NextI(i, j) /\ j' = NextJ(i, j)
    /\ UNCHANGED <<r, c, T, K, s, t, UU_DD, UD_DU, NN, todo, wk>>

Next == Start \/ PairBegin \/ ScanStep \/ Reduce

Spec == Init /\ [][Next]_vars

\* ---- the scan of a pair as a function ------------------------------------
\* lines 81-100: the counters of the pair (a, b) after its first n periods
RECURSIVE Scan(_, _, _, _, _, _)
Scan(m, cc, sd, a, b, n) ==
    IF n = 0 THEN [UU_DD |-> 0, UD_DU |-> 0, NN |-> 0]
    ELSE LET q == Scan(m, cc, sd, a, b, n - 1)
             o == Outcome(m, cc, sd, a, b, n - 1)
         IN  [UU_DD |-> IF o = "UU_DD" THEN q.UU_DD + 1 ELSE q.UU_DD,
              UD_DU |-> IF o = "UD_DU" THEN q.UD_DU - 1 ELSE q.UD_DU,
              NN |-> IF o = "NN" THEN q.NN - 1 ELSE q.NN]

\* ---- the pairs handed to concurrent workers -------------------------------
\* lines 71-77 by the caller, then every pair (i, j), j <= i, is up for grabs
Fork ==
    /\ pc = "start"
    /\ s' = [k \in 0..(K - 1) |-> Std(r, k, T)]
    /\ cor' = [p \in Cells |-> Zero]
    /\ cov' = [p \in Cells |-> Zero]
    /\ todo' = Pairs
    /\ pc' = "fork"
    /\ UNCHANGED <<r, c, T, K, i, j, t, UU_DD, UD_DU, NN, corW, covW, wk>>

\* a worker takes a pair and scans it (lines 81-100: reads r, c, s only)
Take(w) ==
    /\ pc = "fork"
    /\ wk[w].pc = "idle"
    /\ \E p \in todo :
          /\ todo' = todo \ {p}
          /\ LET q == Scan(r, c, s, p[1], p[2], T)
             IN  wk' = [wk EXCEPT ![w] = [pc |-> "l103", i |-> p[1], j |-> p[2],
                                          UU_DD |-> q.UU_DD, UD_DU |-> q.UD_DU,
                                          NN |-> q.NN, err |-> @.err]]
    /\ UNCHANGED <<r, c, T, K, s, pc, i, j, t, UU_DD, UD_DU, NN, cor, cov, corW, covW>>

\* line 103: cor[i, j] = (UU_DD + UD_DU) / (T + NN)
L103(w) ==
    /\ wk[w].pc = "l103"
    /\ \/ /\ T + wk[w].NN = 0
          /\ wk' = [wk EXCEPT ![w] = [Idle EXCEPT !.err = TRUE]]
          /\ UNCHANGED <<cor, corW>>
       \/ /\ T + wk[w].NN # 0
          /\ cor' = Assign(cor, <<wk[w].i, wk[w].j>>,
                           Ratio(wk[w].UU_DD, wk[w].UD_DU, wk[w].NN, T))
          /\ corW' = LogWrite(corW, <<wk[w].i, wk[w].j>>, <<wk[w].i, wk[w].j>>)
          /\ wk' = [wk EXCEPT ![w].pc = "l104"]
    /\ UNCHANGED <<r, c, T, K, s, pc, i, j, t, UU_DD, UD_DU, NN, cov, covW, todo>>

\* line 104: cor[j, i] = cor[i, j]
L104(w) ==
    /\ wk[w].pc = "l104"
    /\ cor' = Assign(cor, Mirror(wk[w].i, wk[w].j), cor[<<wk[w].i, wk[w].j>>])
    /\ corW' = LogWrite(corW, Mirror(wk[w].i, wk[w].j), <<wk[w].i, wk[w].j>>)
    /\ wk' = [wk EXCEPT ![w].pc = "l107"]
    /\ UNCHANGED <<r, c, T, K, s, pc, i, j, t, UU_DD, UD_DU, NN, cov, covW, todo>>

\* line 107: cov[i, j] = cor[i, j] * s[i] * s[j]
L107(w) ==
    /\ wk[w].pc = "l107"
    /\ cov' = Assign(cov, <<wk[w].i, wk[w].j>>,
                     CovOf(cor[<<wk[w].i, wk[w].j>>], s[wk[w].i], s[wk[w].j]))
    /\ covW' = LogWrite(covW, <<wk[w].i, wk[w].j>>, <<wk[w].i, wk[w].j>>)
    /\ wk' = [wk EXCEPT ![w].pc = "l108"]
    /\ UNCHANGED <<r, c, T, K, s, pc, i, j, t, UU_DD, UD_DU, NN, cor, corW, todo>>

\* line 108: cov[j, i] = cov[i, j]; the pair is done
L108(w) ==
    /\ wk[w].pc = "l108"
    /\ cov' = Assign(cov, Mirror(wk[w].i, wk[w].j), cov[<<wk[w].i, wk[w].j>>])
    /\ covW' = LogWrite(covW, Mirror(wk[w].i, wk[w].j), <<wk[w].i, wk[w].j>>)
    /\ wk' = [wk EXCEPT ![w] = [Idle EXCEPT !.err = wk[w].err]]
    /\ UNCHANGED <<r, c, T, K, s, pc, i, j, t, UU_DD, UD_DU, NN, cor, corW, todo>>

\* the join: every pair handed out and finished; a worker's exception is re-raised
Join ==
    /\ pc = "fork"
    /\ todo = {}
    /\ \A w \in 1..NWorkers : wk[w].pc = "idle"
    /\ pc' = IF \E w \in 1..NWorkers : wk[w].err THEN "raised" ELSE "joined"
    /\ UNCHANGED <<r, c, T, K, s, i, j, t, UU_DD, UD_DU, NN, cor, cov, corW, covW, todo, wk>>

NextPar ==
    \/ Fork
    \/ \E w \in 1..NWorkers : Take(w) \/ L103(w) \/ L104(w) \/ L107(w) \/ L108(w)
    \/ Join

\* the same call, on tables of at most ParMaxT rows
InitPar == Init /\ T <= ParMaxT

SpecPar == InitPar /\ [][NextPar]_vars

\* ---- the result of the sequential loop, cell by cell ----------------------
\* the pair (i, j), j <= i, whose reduction the cell p receives
PairOf(p) == IF p[2] <= p[1] THEN p ELSE <<p[2], p[1]>>

SeqRaises(m, cc, sd) == \E p \in Pairs : T + Scan(m, cc, sd, p[1], p[2], T).NN = 0

SeqCor(m, cc, sd) ==
    [p \in Cells |->
        LET q == Scan(m, cc, sd, PairOf(p)[1], PairOf(p)[2], T)
        IN  Ratio(q.UU_DD, q.UD_DU, q.NN, T)]

SeqCov(m, cc, sd) ==
    [p \in Cells |-> CovOf(SeqCor(m, cc, sd)[p], sd[PairOf(p)[1]], sd[PairOf(p)[2]])]

\* the loop of Spec ends in exactly these matrices
SeqAgrees ==
    /\ pc = "done" => /\ ~SeqRaises(r, c, s)
                      /\ cor = SeqCor(r, c, s)
                      /\ cov = SeqCov(r, c, s)
    /\ pc = "raised" => SeqRaises(r, c, s)

\* ---- vocabulary of the properties ----------------------------------------
\* a return breaches its threshold (up or down) / lies strictly inside its band
Breach(x, H) == GE(x, H) \/ LE(x, Neg(H))
Inside(x, H) == LT(x, H) /\ GT(x, Neg(H))

\* period tt of the pair (a, b): exactly one series breaches, the other is inside
MixedAt(a, b, tt) ==
    LET Ha == Threshold(c, s[a])
        Hb == Threshold(c, s[b])
    IN  \/ Breach(r[tt][a], Ha) /\ Inside(r[tt][b], Hb)
        \/ Inside(r[tt][a], Ha) /\ Breach(r[tt][b], Hb)

MixedCount(a, b, n) == Cardinality({tt \in 0..(n - 1) : MixedAt(a, b, tt)})

Abs(x) == IF x < 0 THEN 0 - x ELSE x

\* c1 <= c2 on fractions with positive denominators
LeqC(c1, c2) == c1[1] * c2[2] <= c2[1] * c1[2]

InvalidInput == T < 2 \/ c[1] <= 0

ZeroCol(k) == \A tt \in 0..(T - 1) : r[tt][k] = 0
Anti(a, b) == \A tt \in 0..(T - 1) : r[tt][b] = 0 - r[tt][a]
NonzeroStd(k) == ~s[k].nan /\ s[k].num > 0

Written(p) == corW[p] # <<>>
InLoop == pc \in {"pair", "scan", "done"}

\* ---- the claims -----------------------------------------------------------

\* C1: with T >= 2, a column paired with itself is never discordant or mixed,
\* so UU_DD + |NN| equals the number of periods scanned, and every diagonal
\* cell that was assigned (its denominator T + NN being nonzero) holds 1.
C1_DiagonalOne ==
    /\ (pc = "scan" /\ i = j /\ T >= 2) =>
          /\ UD_DU = 0
          /\ MixedCount(i, i, t) = 0
          /\ UU_DD - NN = t
    /\ \A a \in 0..(K - 1) :
          (T >= 2 /\ Written(<<a, a>>)) => FEq(cor[<<a, a>>], One)

C1_Witness ==
    /\ pc = "done" /\ T >= 2 /\ K = 2
    /\ cor[<<1, 1>>].d < T
    /\ FEq(cor[<<1, 1>>], One)

\* C2: for every pair, |UU_DD + UD_DU| <= (periods scanned) + NN, and every
\* assigned cell of cor has a nonzero denominator and a value in [-1, 1].
C2_Range ==
    /\ pc = "scan" => Abs(UU_DD + UD_DU) <= t + NN
    /\ \A p \in Cells :
          Written(p) => /\ cor[p].d # 0
                        /\ cor[p].n * cor[p].n <= cor[p].d * cor[p].d

C2_Witness ==
    /\ pc = "done" /\ K = 2
    /\ cor[<<1, 0>>].n < 0
    /\ cor[<<1, 0>>].n > 0 - cor[<<1, 0>>].d
    /\ cor[<<1, 0>>].d < T

\* C3: a pair whose denominator T + NN is 0 does not abort the call.
C3_DegenerateDoesNotAbort == pc # "raised"

\* C4: an input with T < 2 or threshold_value <= 0 is rejected before any
\* pair is processed: the loops are never entered and no cell is assigned.
C4_InvalidRejected ==
    InvalidInput => /\ ~InLoop
                    /\ \A p \in Cells : corW[p] = <<>> /\ covW[p] = <<>>

\* C5: with T >= 2 and threshold_value > 0, a pair one of whose assets has
\* all-zero returns ends its scan with NN = -T, i.e. T + NN = 0.
C5_ZeroAssetAllNeutral ==
    (pc = "scan" /\ t = T /\ T >= 2 /\ c[1] > 0 /\ (ZeroCol(i) \/ ZeroCol(j))) =>
        NN = 0 - T

\* C6: when the call returns, cor and cov are symmetric under ==, and every
\* cell of both was assigned the value reduced from its unordered pair.
C6_SymmetricComplete ==
    pc = "done" =>
        \A p \in Cells :
            /\ FEq(cor[p], cor[Mirror(p[1], p[2])])
            /\ FEq(cov[p], cov[Mirror(p[1], p[2])])
            /\ corW[p] # <<>> /\ covW[p] # <<>>
            /\ cor[p] = SeqCor(r, c, s)[p]

\* C7: for the sample and pair being scanned under c > 0, every threshold
\* value c2 >= c classifies at least as many of the scanned periods neutral,
\* and at the end of the scan |T + NN| under c2 is at most that under c.
C7_ThresholdMonotone ==
    (pc = "scan" /\ c[1] > 0) =>
        \A c2 \in CVals :
            LeqC(c, c2) =>
                /\ Scan(r, c2, s, i, j, t).NN <= NN
                /\ t = T => Abs(T + Scan(r, c2, s, i, j, T).NN) <= Abs(T + NN)

C7_Witness ==
    /\ pc = "scan" /\ t = T /\ c[1] > 0 /\ i # j
    /\ NN < 0
    /\ \E c2 \in CVals : LeqC(c, c2) /\ Scan(r, c2, s, i, j, T).NN < NN

\* C8: with T >= 2, c > 0 and B = -A of nonzero standard deviation, no period
\* of the pair is concordant or mixed; at the end of the scan a nonzero
\* denominator gives UU_DD + UD_DU = -(T + NN), and the assigned cell holds -1.
C8_AntiMovement ==
    /\ (pc = "scan" /\ T >= 2 /\ c[1] > 0 /\ Anti(i, j) /\ NonzeroStd(i)) =>
          /\ UU_DD = 0
          /\ MixedCount(i, j, t) = 0
          /\ (t = T /\ T + NN # 0) => UU_DD + UD_DU = 0 - (T + NN)
    /\ \A p \in Pairs :
          (InLoop /\ T >= 2 /\ c[1] > 0 /\ Anti(p[1], p[2]) /\ NonzeroStd(p[1])
             /\ Written(p)) =>
                FEq(cor[p], [One EXCEPT !.n = 0 - 1])

C8_Witness ==
    /\ pc = "done" /\ T >= 2 /\ c[1] > 0 /\ K = 2
    /\ Anti(1, 0) /\ NonzeroStd(1)
    /\ cor[<<1, 0>>].d < T
    /\ FEq(cor[<<1, 0>>], [One EXCEPT !.n = 0 - 1])

\* C9: during the scan of a pair, UU_DD >= 0, UD_DU <= 0, NN <= 0, and
\* UU_DD + |UD_DU| + |NN| equals the periods scanned minus the mixed ones.
C9_CounterAccounting ==
    pc = "scan" =>
        /\ UU_DD >= 0 /\ UD_DU <= 0 /\ NN <= 0
        /\ UU_DD - UD_DU - NN = t - MixedCount(i, j, t)

\* C10 as stated: under concurrent workers no cell is assigned by two
\* different pairs, each cell is assigned once, and after the join the
\* outcome is that of the sequential loop.
OwnPairOnly(lg) ==
    \A p \in Cells : \A k \in 1..Len(lg[p]) : lg[p][k] = PairOf(p)

JoinAgrees ==
    /\ pc = "joined" => /\ ~SeqRaises(r, c, s)
                        /\ cor = SeqCor(r, c, s)
                        /\ cov = SeqCov(r, c, s)
    /\ pc = "raised" => SeqRaises(r, c, s)

C10_WrittenOnce ==
    /\ OwnPairOnly(corW) /\ OwnPairOnly(covW)
    /\ \A p \in Cells : Len(corW[p]) <= 1 /\ Len(covW[p]) <= 1
    /\ pc = "joined" => \A p \in Cells : Len(corW[p]) = 1 /\ Len(covW[p]) = 1
    /\ JoinAgrees

\* C10 amended: no cell is assigned by two different pairs; an off-diagonal
\* cell is assigned once and a diagonal cell twice (lines 103 and 104, 107
\* and 108 with i = j), both times by its own pair; after the join the
\* outcome is that of the sequential loop, for every interleaving.
Times(p) == IF p[1] = p[2] THEN 2 ELSE 1

C10_Independent ==
    /\ OwnPairOnly(corW) /\ OwnPairOnly(covW)
    /\ \A p \in Cells : Len(corW[p]) <= Times(p) /\ Len(covW[p]) <= Times(p)
    /\ pc = "joined" =>
          \A p \in Cells : Len(corW[p]) = Times(p) /\ Len(covW[p]) = Times(p)
    /\ JoinAgrees

C10_Witness ==
    /\ pc = "joined" /\ K = 2 /\ T >= 2
    /\ cor[<<0, 1>>].n # 0
    /\ cor[<<0, 1>>].d < T

====
